---- MODULE Spec2Model ----
(***************************************************************************)
(* Two batch ETL scripts of the repository:                                *)
(*   netflix-etl-mysql.py  loads a catalogue CSV into a normalised MySQL   *)
(*                         schema (etl_process, get_or_create_id);         *)
(*   exchangerates.py      fetches one exchange-rate document per date     *)
(*                         through a thread pool and appends the           *)
(*                         flattened rows to one CSV file.                 *)
(* Text is modelled as a sequence of one-character strings, so that        *)
(* strip, split, int(), re.search and strptime are computed, not assumed.  *)
(* An optional value (Python None / SQL NULL) is <<>>, a present value v   *)
(* is <<v>>.                                                               *)
(***************************************************************************)
EXTENDS Integers, Sequences, FiniteSets, TLC

(***************************************************************************)
(* Bounds of the model and constants of the programs.                      *)
(***************************************************************************)
\* longest catalogue file enumerated row by row
MaxRows == 2
\* number of consecutive etl_process runs over the same file
MaxRuns == 2
\* rows that follow the commit boundary in the long catalogue files
LongTail == 5
\* most dates the key source yields in one exchange-rate run
MaxDates == 2
\* most entries of one payload's rates map
MaxRates == 2
\* exchangerates.py:38
MAX_WORKERS == 10
\* netflix-etl-mysql.py:204
expected_cols == 12
\* netflix-etl-mysql.py:335
CommitEvery == 100
\* netflix-etl-mysql.py:23 (VARCHAR(255) columns of shows and lookup tables)
VarcharLen == 255
\* netflix-etl-mysql.py:27 (rating VARCHAR(50))
RatingLen == 50

(***************************************************************************)
(* Text helpers (Python str methods and the re / datetime calls used).     *)
(***************************************************************************)
DigitChars == <<"0", "1", "2", "3", "4", "5", "6", "7", "8", "9">>

Digit == {DigitChars[k] : k \in 1..10}

Whitespace == {" ", "\t"}

DigitVal(c) == (CHOOSE k \in 1..10 : DigitChars[k] = c) - 1

AllDigits(s) == \A k \in 1..Len(s) : s[k] \in Digit

RECURSIVE DigitsToNat(_)
DigitsToNat(s) ==
    IF s = <<>> THEN 0
    ELSE DigitsToNat(SubSeq(s, 1, Len(s) - 1)) * 10 + DigitVal(s[Len(s)])

RECURSIVE LStrip(_)
LStrip(s) ==
    IF s # <<>> /\ Head(s) \in Whitespace THEN LStrip(Tail(s)) ELSE s

RECURSIVE RStrip(_)
RStrip(s) ==
    IF s # <<>> /\ s[Len(s)] \in Whitespace
    THEN RStrip(SubSeq(s, 1, Len(s) - 1)) ELSE s

\* str.strip()
Strip(s) == RStrip(LStrip(s))

\* str.split(sep) for a one-character separator: always at least one piece
RECURSIVE Split(_, _)
Split(s, sep) ==
    IF \A k \in 1..Len(s) : s[k] # sep THEN <<s>>
    ELSE LET p == CHOOSE k \in 1..Len(s) :
                      s[k] = sep /\ \A j \in 1..(k - 1) : s[j] # sep
         IN  <<SubSeq(s, 1, p - 1)>> \o Split(SubSeq(s, p + 1, Len(s)), sep)

UpperChars == <<"A", "B", "C", "D", "E", "F", "G", "H", "I", "J", "K", "L", "M",
                "N", "O", "P", "Q", "R", "S", "T", "U", "V", "W", "X", "Y", "Z">>

LowerChars == <<"a", "b", "c", "d", "e", "f", "g", "h", "i", "j", "k", "l", "m",
                "n", "o", "p", "q", "r", "s", "t", "u", "v", "w", "x", "y", "z">>

LowerChar(c) ==
    IF \E k \in 1..26 : UpperChars[k] = c
    THEN LowerChars[CHOOSE k \in 1..26 : UpperChars[k] = c] ELSE c

\* str.lower()
Lower(s) == [k \in 1..Len(s) |-> LowerChar(s[k])]

\* sub in s
Contains(sub, s) ==
    \E k \in 0..(Len(s) - Len(sub)) : SubSeq(s, k + 1, k + Len(sub)) = sub

\* int(text): surrounding whitespace and one sign are accepted, anything
\* else than decimal digits raises ValueError (<<>>)
PyInt(s) ==
    LET t == Strip(s)
        neg == t # <<>> /\ Head(t) = "-"
        u == IF t # <<>> /\ Head(t) \in {"-", "+"} THEN Tail(t) ELSE t
    IN  IF u = <<>> \/ ~AllDigits(u) THEN <<>>
        ELSE <<IF neg THEN 0 - DigitsToNat(u) ELSE DigitsToNat(u)>>

\* re.search(r'(\d)', s): the first digit alone
ReSearchDigit(s) ==
    IF \A k \in 1..Len(s) : s[k] \notin Digit THEN <<>>
    ELSE <<DigitVal(s[CHOOSE k \in 1..Len(s) :
                      s[k] \in Digit /\ \A j \in 1..(k - 1) : s[j] \notin Digit])>>

\* re.search(r'(\d+)', s): int(match.group(1)) of the leftmost maximal run
\* of digits, <<>> when there is no match
ReSearchInt(s) ==
    IF \A k \in 1..Len(s) : s[k] \notin Digit THEN <<>>
    ELSE LET p == CHOOSE k \in 1..Len(s) :
                      s[k] \in Digit /\ \A j \in 1..(k - 1) : s[j] \notin Digit
             q == CHOOSE k \in p..Len(s) :
                      /\ \A j \in p..k : s[j] \in Digit
                      /\ (k = Len(s) \/ s[k + 1] \notin Digit)
         IN  <<DigitsToNat(SubSeq(s, p, q))>>

IsLeap(y) == (y % 4 = 0 /\ y % 100 # 0) \/ y % 400 = 0

DaysInMonth(y, m) ==
    IF m = 2 THEN (IF IsLeap(y) THEN 29 ELSE 28)
    ELSE IF m \in {4, 6, 9, 11} THEN 30 ELSE 31

\* datetime.strptime(s, '%Y-%m-%d'): %Y is exactly four digits, %m and %d
\* one or two digits in range, the whole text is consumed and the date
\* exists; ValueError is <<>>
Strptime(s) ==
    LET parts == Split(s, "-")
    IN  IF Len(parts) # 3 THEN <<>>
        ELSE LET ys == parts[1]
                 ms == parts[2]
                 ds == parts[3]
                 shape == /\ Len(ys) = 4 /\ AllDigits(ys)
                          /\ Len(ms) \in {1, 2} /\ AllDigits(ms)
                          /\ Len(ds) \in {1, 2} /\ AllDigits(ds)
             IN  IF ~shape THEN <<>>
                 ELSE LET y == DigitsToNat(ys)
                          m == DigitsToNat(ms)
                          d == DigitsToNat(ds)
                      IN  IF y >= 1 /\ m \in 1..12 /\ d >= 1 /\ d <= DaysInMonth(y, m)
                          THEN <<[year |-> y, month |-> m, day |-> d]>>
                          ELSE <<>>

\* date_obj.strftime('%m'), the month in place of the day
StrftimeMonth(date) ==
    <<DigitChars[(date.month \div 10) + 1], DigitChars[(date.month % 10) + 1]>>

\* date_obj.strftime('%d'): the day of the month, zero padded to two digits
StrftimeDay(date) ==
    <<DigitChars[(date.day \div 10) + 1], DigitChars[(date.day % 10) + 1]>>

(***************************************************************************)
(* netflix-etl-mysql.py: the row transform of etl_process.                 *)
(***************************************************************************)
\* row[-expected_cols:], the last twelve columns
TruncateTail(row) == SubSeq(row, Len(row) - expected_cols + 1, Len(row))

\* row = row[:expected_cols]
Truncate(row) == SubSeq(row, 1, expected_cols)

\* the duration / seasons split on the stripped type
DurationOf(item_type, raw) ==
    IF item_type = <<"M", "o", "v", "i", "e">> THEN ReSearchInt(raw) ELSE <<>>

SeasonsOf(item_type, raw) ==
    IF item_type = <<"T", "V", " ", "S", "h", "o", "w">> THEN ReSearchInt(raw) ELSE <<>>

\* date_added_day, date_added_year: both None for an empty or unparseable date
DateAddedDay(full) ==
    IF full = <<>> \/ Strptime(full) = <<>> THEN <<>>
    ELSE <<StrftimeDay(Strptime(full)[1])>>

DateAddedYear(full) ==
    IF full = <<>> \/ Strptime(full) = <<>> THEN <<>>
    ELSE <<Strptime(full)[1].year>>

\* one comma-separated list field: the stripped, non-empty names in order
RECURSIVE StripAll(_)
StripAll(pieces) ==
    IF pieces = <<>> THEN <<>>
    ELSE LET n == Strip(Head(pieces))
         IN  (IF n # <<>> THEN <<n>> ELSE <<>>) \o StripAll(Tail(pieces))

NamesOf(str) == IF str = <<>> THEN <<>> ELSE StripAll(Split(str, ","))

\* the try block up to the first statement that touches the database:
\* err is the ValueError of int(release_year) or the IndexError of a row
\* that has no twelfth field
TransformRow(row) ==
    IF Len(row) < expected_cols \/ PyInt(Strip(row[8])) = <<>>
    THEN [err |-> TRUE]
    ELSE LET item_type == Strip(row[2])
             raw == Strip(row[10])
             full == Strip(row[7])
         IN  [err |-> FALSE,
              shows_data |->
                  [show_id |-> Strip(row[1]),
                   type |-> item_type,
                   title |-> Strip(row[3]),
                   date_added_day |-> DateAddedDay(full),
                   date_added_year |-> DateAddedYear(full),
                   release_year |-> PyInt(Strip(row[8]))[1],
                   rating |-> Strip(row[9]),
                   duration |-> DurationOf(item_type, raw),
                   seasons |-> SeasonsOf(item_type, raw),
                   description |-> Strip(row[12])],
              names |->
                  [directors |-> NamesOf(Strip(row[4])),
                   cast_members |-> NamesOf(Strip(row[5])),
                   countries |-> NamesOf(Strip(row[6])),
                   genres |-> NamesOf(Strip(row[11]))]]

(***************************************************************************)
(* The MySQL schema and the statements the script executes.  A table of    *)
(* shows is a function from show_id to the other columns; a lookup table   *)
(* is a set of [id, name] rows; a junction table a set of <<show_id, id>>. *)
(***************************************************************************)
Tables == <<"directors", "cast_members", "countries", "genres">>

TableSet == {Tables[k] : k \in 1..Len(Tables)}

EmptyShows == [s \in {} |-> <<>>]

EmptyDb ==
    [shows |-> EmptyShows,
     lookup |-> [t \in TableSet |-> {}],
     junction |-> [t \in TableSet |-> {}]]

\* INSERT INTO shows ... ON DUPLICATE KEY UPDATE ...; a value longer than its
\* VARCHAR column is rejected by the server (error 1406 under the default
\* strict SQL mode)
UpsertShow(shows, d) ==
    IF \/ Len(d.show_id) > VarcharLen \/ Len(d.type) > VarcharLen
       \/ Len(d.title) > VarcharLen \/ Len(d.rating) > RatingLen
    THEN [err |-> TRUE, shows |-> shows]
    ELSE [err |-> FALSE,
          shows |-> [s \in DOMAIN shows \cup {d.show_id} |->
                        IF s = d.show_id THEN d ELSE shows[s]]]

\* the SELECT without its WHERE clause: the first row of the table
SelectIdAnyRow(rows, name) ==
    IF rows # {} THEN <<(CHOOSE r \in rows : TRUE).id>> ELSE <<>>

\* SELECT <x>_id FROM <table> WHERE <x>_name = %s; fetchone()
SelectId(rows, name) ==
    IF \E r \in rows : r.name = name
    THEN <<(CHOOSE r \in rows : r.name = name).id>> ELSE <<>>

\* INSERT INTO <table> (<x>_name) VALUES (%s) on <x>_name VARCHAR(255) UNIQUE
\* with an AUTO_INCREMENT key: errno 1062 on a duplicate name
InsertLookup(rows, ai, name) ==
    IF \E r \in rows : r.name = name
    THEN [errno |-> 1062, rows |-> rows, autoinc |-> ai + 1, lastrowid |-> 0]
    ELSE IF Len(name) > VarcharLen
    THEN [errno |-> 1406, rows |-> rows, autoinc |-> ai, lastrowid |-> 0]
    ELSE [errno |-> 0, rows |-> rows \cup {[id |-> ai, name |-> name]},
          autoinc |-> ai + 1, lastrowid |-> ai]

\* get_or_create_id without the lookup by name and without the UNIQUE check
GetOrCreateIdBlind(rows, ai, name) ==
    [err |-> FALSE, id |-> ai,
     rows |-> rows \cup {[id |-> ai, name |-> name]}, autoinc |-> ai + 1]

\* get_or_create_id(cursor, table_name, name_column, name_value) on the rows
\* and the AUTO_INCREMENT counter of one lookup table
GetOrCreateId(rows, ai, name) ==
    IF SelectId(rows, name) # <<>>
    THEN [err |-> FALSE, id |-> SelectId(rows, name)[1], rows |-> rows, autoinc |-> ai]
    ELSE LET ins == InsertLookup(rows, ai, name)
         IN  IF ins.errno = 0
             THEN [err |-> FALSE, id |-> ins.lastrowid,
                   rows |-> ins.rows, autoinc |-> ins.autoinc]
             ELSE IF ins.errno = 1062 /\ SelectId(ins.rows, name) # <<>>
             THEN [err |-> FALSE, id |-> SelectId(ins.rows, name)[1],
                   rows |-> ins.rows, autoinc |-> ins.autoinc]
             ELSE [err |-> TRUE, id |-> 0, rows |-> ins.rows, autoinc |-> ins.autoinc]

\* one list field of one show: get_or_create_id and INSERT IGNORE INTO the
\* junction table for each name, stopping at the first MySQL error
RECURSIVE LinkNames(_, _, _, _, _)
LinkNames(names, show_id, rows, pairs, ai) ==
    IF names = <<>>
    THEN [err |-> FALSE, rows |-> rows, pairs |-> pairs, autoinc |-> ai]
    ELSE LET g == GetOrCreateId(rows, ai, Head(names))
         IN  IF g.err
             THEN [err |-> TRUE, rows |-> g.rows, pairs |-> pairs, autoinc |-> g.autoinc]
             ELSE LinkNames(Tail(names), show_id, g.rows,
                            pairs \cup {<<show_id, g.id>>}, g.autoinc)

\* the four list fields in the order of the code
RECURSIVE LinkTables(_, _, _, _)
LinkTables(ts, t, c, ai) ==
    IF ts = <<>> THEN [err |-> FALSE, cur |-> c, autoinc |-> ai]
    ELSE LET tb == Head(ts)
             l == LinkNames(t.names[tb], t.shows_data.show_id,
                            c.lookup[tb], c.junction[tb], ai[tb])
             c2 == [c EXCEPT !.lookup[tb] = l.rows, !.junction[tb] = l.pairs]
             ai2 == [ai EXCEPT ![tb] = l.autoinc]
         IN  IF l.err THEN [err |-> TRUE, cur |-> c2, autoinc |-> ai2]
             ELSE LinkTables(Tail(ts), t, c2, ai2)

\* everything one transformed row executes on the cursor
WriteRow(t, c, ai) ==
    LET u == UpsertShow(c.shows, t.shows_data)
    IN  IF u.err THEN [err |-> TRUE, cur |-> c, autoinc |-> ai]
        ELSE LinkTables(Tables, t, [c EXCEPT !.shows = u.shows], ai)

(***************************************************************************)
(* The catalogue files the runs are checked on.  Fields, in CSV order:     *)
(* show_id, type, title, director, cast, country, date_added,              *)
(* release_year, rating, duration, listed_in, description.                 *)
(***************************************************************************)
sMovie == <<"M", "o", "v", "i", "e">>
sTVShow == <<"T", "V", " ", "S", "h", "o", "w">>
sFilm == <<"F", "i", "l", "m">>
sAnn == <<"A", "n", "n">>
sBob == <<"B", "o", "b">>
sAnnBob == <<"A", "n", "n", ",", " ", "B", "o", "b">>
sPadAnn == <<" ", "A", "n", "n", " ">>
sBobBob == <<"B", "o", "b", ",", ",", "B", "o", "b", " ">>
sUS == <<"U", "S">>
sDrama == <<"D", "r", "a", "m", "a">>
sPG == <<"P", "G">>
sDate1 == <<"2", "0", "1", "9", "-", "0", "8", "-", "1", "4">>
sDate2 == <<" ", "2", "0", "2", "1", "-", "2", "-", "3">>
sDateBad == <<"A", "u", "g", " ", "1", "4", ",", " ", "2", "0", "1", "9">>
sDateFeb30 == <<"2", "0", "1", "9", "-", "0", "2", "-", "3", "0">>
sYear2019 == <<"2", "0", "1", "9">>
sYearPad == <<" ", "2", "0", "2", "0", " ">>
sYearBad == <<"n", "/", "a">>
sDur114 == <<"1", "1", "4", " ", "m", "i", "n">>
sDur2S == <<"2", " ", "S", "e", "a", "s", "o", "n", "s">>
sDurNone == <<"m", "i", "n">>
sDurMixed == <<"1", "h", " ", "3", "0", " ", "m", "i", "n">>
sHdrShowId == <<"S", "h", "o", "w", "_", "I", "D">>
sX == <<"x">>
sLongTitle == [k \in 1..(VarcharLen + 1) |-> "x"]

\* a film with two directors and a full date
RowMovie ==
    <<<<"s", "1">>, sMovie, sX, sAnnBob, <<>>, sUS, sDate1, sYear2019, sPG,
      sDur114, sDrama, sX>>

\* a series sharing a director and a genre with RowMovie, padded fields
RowSeries ==
    <<<<" ", "s", "2">>, sTVShow, sX, sPadAnn, sBobBob, <<>>, sDate2, sYearPad,
      sPG, sDur2S, sDrama, sX>>

\* a film whose duration holds no digit and whose date is free text
RowNoDigits ==
    <<<<"s", "3">>, sMovie, sX, <<>>, sAnn, <<>>, sDateBad, sYear2019, sPG,
      sDurNone, <<>>, sX>>

\* an unknown type, a date that does not exist
RowFilm ==
    <<<<"s", "4">>, sFilm, sX, sBob, <<>>, sUS, sDateFeb30, sYear2019, sPG,
      sDurMixed, sDrama, sX>>

\* thirteen columns, the show_id of RowMovie again
RowExtra ==
    <<<<"s", "1">>, sTVShow, sX, sBob, <<>>, <<>>, <<>>, sYear2019, sPG,
      sDurMixed, <<>>, sX, sAnn>>

\* three columns
RowShort == <<<<"s", "5">>, sMovie, sX>>

\* release_year is not a number
RowBadYear ==
    <<<<"s", "6">>, sMovie, sX, sAnn, <<>>, sUS, sDate1, sYearBad, sPG,
      sDur114, sDrama, sX>>

\* a title longer than its column
RowLongTitle ==
    <<<<"s", "7">>, sMovie, sLongTitle, sAnn, <<>>, sUS, sDate1, sYear2019, sPG,
      sDur114, sDrama, sX>>

\* what csv.reader yields for a blank line
RowEmpty == <<>>

RowHeader ==
    <<sHdrShowId, sX, sX, sX, sX, sX, sX, sX, sX, sX, sX, sX>>

Catalogue ==
    {RowMovie, RowSeries, RowNoDigits, RowFilm, RowExtra, RowShort,
     RowBadYear, RowLongTitle, RowEmpty, RowHeader}

ShortFiles ==
    UNION {[1..n -> Catalogue] : n \in 0..MaxRows}

\* a file long enough to cross the commit boundary: RowMovie and RowSeries
\* alternate, except that line `at` holds `row`
LongFile(at, row) ==
    [k \in 1..(CommitEvery + LongTail) |->
        IF k = at THEN row ELSE IF k % 2 = 1 THEN RowMovie ELSE RowSeries]

LongFiles ==
    {LongFile(at, row) : at \in {1, CommitEvery - 1, CommitEvery},
                         row \in {RowFilm, RowEmpty, RowShort, RowBadYear,
                                  RowLongTitle, RowHeader}}

(***************************************************************************)
(* State.                                                                  *)
(***************************************************************************)
VARIABLES
    file,       \* the CSV file as csv.reader yields it, row by row
    pc,         \* "start", "loop" (inside the for loop), "closed"
    run,        \* which etl_process run this is
    i,          \* the enumerate index of the next row
    cur,        \* the tables as the open transaction sees them
    db,         \* the committed tables
    autoinc,    \* AUTO_INCREMENT counter of each lookup table
    okRows,     \* indices of the rows of this run that reached the end of the try block
    pending,    \* indices of the rows whose work is not yet committed
    live,       \* indices of the rows of this run whose work is in cur
    last,       \* the last loop iteration: [i, outcome]
    snap        \* the committed tables at the end of the previous run

etlVars == <<file, pc, run, i, cur, db, autoinc, okRows, pending, live, last, snap>>

\* a future of future_to_date is [key, status, result, drained] and, for the
\* properties, src (the yield it was submitted for) and http (what the API
\* answered)
VARIABLES
    dates,          \* what get_dates_from_database yields, in order
    failAt,         \* the yield at which the key source raises pyodbc.Error, 0 for never
    next,           \* the next yield of the key source
    mpc,            \* main thread: "submit", "dbfail", "drain", "exit"
    futures,        \* future_to_date in submission order
    dates_found,
    header_written,
    csv,            \* the lines of exchange_rates.csv
    exit_code,      \* -1 while the process runs
    log,            \* the run-level message logged at the end
    writing         \* the threads inside a write to csvfile: [thread, future],
                    \* thread 0 the main thread, thread f the worker of task f

ratesVars == <<dates, failAt, next, mpc, futures, dates_found, header_written,
               csv, exit_code, log, writing>>

VARIABLES
    xPayload,       \* raw_json_data
    xDate,          \* requested_date
    xRows           \* <<>> before the call, <<rows>> after it

xfVars == <<xPayload, xDate, xRows>>

\* two connections calling get_or_create_id(cursor, table, column, name) for
\* one table and one name, each inside its own transaction
VARIABLES
    isolation,      \* the server's transaction_isolation
    tbl,            \* the committed rows of the lookup table
    rai,            \* its AUTO_INCREMENT counter
    sess            \* per connection: pc, snapshot, own (uncommitted rows),
                    \* ret (the id returned), dup (errno 1062 was caught)

raceVars == <<isolation, tbl, rai, sess>>

vars == <<etlVars, ratesVars, xfVars, raceVars>>

NoRow == [i |-> 0 - 1, outcome |-> "none"]

InitEtl(files) ==
    /\ file \in files
    /\ pc = "start"
    /\ run = 1
    /\ i = 0
    /\ cur = EmptyDb
    /\ db = EmptyDb
    /\ autoinc = [t \in TableSet |-> 1]
    /\ okRows = {}
    /\ pending = {}
    /\ live = {}
    /\ last = NoRow
    /\ snap = EmptyDb

(***************************************************************************)
(* etl_process.                                                            *)
(***************************************************************************)
\* DELETE FROM the four junction tables and shows, then conn.commit()
ClearTables ==
    /\ pc = "start"
    /\ cur' = [cur EXCEPT !.shows = EmptyShows,
                          !.junction = [t \in TableSet |-> {}]]
    /\ db' = cur'
    /\ pc' = "loop"
    /\ i' = 0
    /\ okRows' = {}
    /\ pending' = {}
    /\ live' = {}
    /\ last' = NoRow
    /\ UNCHANGED <<file, run, autoinc, snap>>
    /\ UNCHANGED <<ratesVars, xfVars, raceVars>>

InLoop == pc = "loop" /\ i < Len(file)

Row == file[i + 1]

\* i == 0 and 'show_id' in row[0].lower()
HeaderAt(k, row) ==
    k = 0 /\ Contains(<<"s", "h", "o", "w", "_", "i", "d">>, Lower(row[1]))

IsHeader(row) == HeaderAt(i, row)

\* conn.rollback(): the open transaction is discarded, the AUTO_INCREMENT
\* counters keep their values
Rollback ==
    /\ cur' = db
    /\ pending' = {}
    /\ live' = live \ pending
    /\ UNCHANGED db

\* if not row: continue
SkipEmptyRow ==
    /\ InLoop
    /\ Row = <<>>
    /\ i' = i + 1
    /\ last' = [i |-> i, outcome |-> "empty"]
    /\ UNCHANGED <<file, pc, run, cur, db, autoinc, okRows, pending, live, snap>>
    /\ UNCHANGED <<ratesVars, xfVars, raceVars>>

\* if i == 0 and 'show_id' in row[0].lower(): continue
SkipHeader ==
    /\ InLoop
    /\ Row # <<>>
    /\ IsHeader(Row)
    /\ i' = i + 1
    /\ last' = [i |-> i, outcome |-> "header"]
    /\ UNCHANGED <<file, pc, run, cur, db, autoinc, okRows, pending, live, snap>>
    /\ UNCHANGED <<ratesVars, xfVars, raceVars>>

\* if len(row) < expected_cols: conn.rollback(); continue
SkipShortRow ==
    /\ InLoop
    /\ Row # <<>>
    /\ ~IsHeader(Row)
    /\ Len(Row) < expected_cols
    /\ Rollback
    /\ i' = i + 1
    /\ last' = [i |-> i, outcome |-> "short"]
    /\ UNCHANGED <<file, pc, run, autoinc, okRows, snap>>
    /\ UNCHANGED <<ratesVars, xfVars, raceVars>>

Parsed == Row # <<>> /\ ~IsHeader(Row) /\ Len(Row) >= expected_cols

\* except (ValueError, IndexError, AttributeError): conn.rollback(); continue
RowParseError ==
    /\ InLoop
    /\ Parsed
    /\ TransformRow(Truncate(Row)).err
    /\ Rollback
    /\ i' = i + 1
    /\ last' = [i |-> i, outcome |-> "parse"]
    /\ UNCHANGED <<file, pc, run, autoinc, okRows, snap>>
    /\ UNCHANGED <<ratesVars, xfVars, raceVars>>

\* except mysql.connector.Error: conn.rollback(); continue
RowMySQLError ==
    /\ InLoop
    /\ Parsed
    /\ ~TransformRow(Truncate(Row)).err
    /\ LET w == WriteRow(TransformRow(Truncate(Row)), cur, autoinc)
       IN  /\ w.err
           /\ autoinc' = w.autoinc
    /\ Rollback
    /\ i' = i + 1
    /\ last' = [i |-> i, outcome |-> "mysql"]
    /\ UNCHANGED <<file, pc, run, okRows, snap>>
    /\ UNCHANGED <<ratesVars, xfVars, raceVars>>

\* the try block ran to its end; if (i + 1) % 100 == 0: conn.commit()
RowOk ==
    /\ InLoop
    /\ Parsed
    /\ ~TransformRow(Truncate(Row)).err
    /\ LET w == WriteRow(TransformRow(Truncate(Row)), cur, autoinc)
       IN  /\ ~w.err
           /\ autoinc' = w.autoinc
           /\ cur' = w.cur
           /\ IF (i + 1) % CommitEvery = 0
              THEN db' = w.cur /\ pending' = {}
              ELSE db' = db /\ pending' = pending \cup {i}
    /\ okRows' = okRows \cup {i}
    /\ live' = live \cup {i}
    /\ i' = i + 1
    /\ last' = [i |-> i, outcome |-> "ok"]
    /\ UNCHANGED <<file, pc, run, snap>>
    /\ UNCHANGED <<ratesVars, xfVars, raceVars>>

\* after the loop: conn.commit(), cursor.close(); the caller closes the
\* connection
EndOfFile ==
    /\ pc = "loop"
    /\ i = Len(file)
    /\ db' = cur
    /\ pending' = {}
    /\ pc' = "closed"
    /\ UNCHANGED <<file, run, i, cur, autoinc, okRows, live, last, snap>>
    /\ UNCHANGED <<ratesVars, xfVars, raceVars>>

\* the script is started again on the same file and the same database
Rerun ==
    /\ pc = "closed"
    /\ run < MaxRuns
    /\ snap' = db
    /\ run' = run + 1
    /\ pc' = "start"
    /\ UNCHANGED <<file, i, cur, db, autoinc, okRows, pending, live, last>>
    /\ UNCHANGED <<ratesVars, xfVars, raceVars>>

NextEtl ==
    \/ ClearTables
    \/ SkipEmptyRow
    \/ SkipHeader
    \/ SkipShortRow
    \/ RowParseError
    \/ RowMySQLError
    \/ RowOk
    \/ EndOfFile
    \/ Rerun

(***************************************************************************)
(* exchangerates.py: fetch_exchange_rate_for_date.                         *)
(***************************************************************************)
\* what requests.get / raise_for_status / response.json() can end in, other
\* than a parsed body
HttpErrors == {"ConnectionError", "Timeout", "HTTPError", "JSONDecodeError"}

\* requests.exceptions: ConnectionError, Timeout, HTTPError and (requests
\* 2.27 and later) the JSONDecodeError of response.json() all derive from
\* RequestException
\* an except clause that names ConnectionError alone
IsConnectionError(e) == e = "ConnectionError"

IsRequestException(e) ==
    e \in {"ConnectionError", "Timeout", "HTTPError", "JSONDecodeError"}

\* target_date_str does not pass strptime(target_date_str, '%Y-%m-%d')
BadDate(key) == Strptime(key) = <<>>

\* the (requested_date_str, raw_json_response) pair the function returns for
\* the answer `http` of the API (err an element of HttpErrors, or err empty
\* and body the parsed JSON);
\* raised is TRUE when an exception leaves the function instead
FetchExchangeRateForDate(key, http) ==
    IF BadDate(key) THEN [raised |-> FALSE, key |-> key, payload |-> <<>>]
    ELSE IF http.err \in HttpErrors
    THEN (IF IsRequestException(http.err)
          THEN [raised |-> FALSE, key |-> key, payload |-> <<>>]
          ELSE [raised |-> TRUE, key |-> key, payload |-> <<>>])
    ELSE [raised |-> FALSE, key |-> key, payload |-> http.body]

(***************************************************************************)
(* exchangerates.py: transform_json_to_csv_rows.  A payload is a JSON      *)
(* object: base, date and rates are <<>> when the key is absent; rates is  *)
(* a sequence of <<currency, value>> in document order.  A JSON value is   *)
(* [kind |-> "num", v |-> decimal], [kind |-> "str", s |-> text] or        *)
(* [kind |-> "null"]; a decimal is [m |-> mantissa, e |-> fraction digits] *)
(* with no trailing zero in the fraction.                                  *)
(***************************************************************************)
RECURSIVE Normal(_)
Normal(d) ==
    IF d.e > 0 /\ d.m % 10 = 0 THEN Normal([m |-> d.m \div 10, e |-> d.e - 1])
    ELSE d

\* float(text) that takes the digits before the first '.' only
PyFloatWhole(s) ==
    LET t == Strip(s)
        whole == Split(t, ".")[1]
    IN  IF whole = <<>> \/ ~AllDigits(whole) THEN <<>>
        ELSE <<[m |-> DigitsToNat(whole), e |-> 0]>>

\* float(text) for plain decimal text: optional surrounding whitespace and
\* sign, digits with an optional fraction; ValueError is <<>>.  (Exponents,
\* underscores, inf and nan, which float() also reads, are not in the inputs.)
PyFloatOfText(s) ==
    LET t == Strip(s)
        neg == t # <<>> /\ Head(t) = "-"
        u == IF t # <<>> /\ Head(t) \in {"-", "+"} THEN Tail(t) ELSE t
        parts == Split(u, ".")
        whole == parts[1]
        frac == IF Len(parts) = 2 THEN parts[2] ELSE <<>>
    IN  IF \/ Len(parts) > 2
           \/ ~AllDigits(whole) \/ ~AllDigits(frac)
           \/ (whole = <<>> /\ frac = <<>>)
        THEN <<>>
        ELSE LET mag == DigitsToNat(whole \o frac)
             IN  <<Normal([m |-> IF neg THEN 0 - mag ELSE mag, e |-> Len(frac)])>>

\* float(rate): a number is itself, text is parsed (ValueError), None is a
\* TypeError
PyFloat(value) ==
    IF value.kind = "num" THEN <<value.v>>
    ELSE IF value.kind = "str" THEN PyFloatOfText(value.s)
    ELSE <<>>

\* the for loop over conversion_rates.items()
RECURSIVE RateRows(_, _, _)
RateRows(rates, base_currency, effective_date) ==
    IF rates = <<>> THEN <<>>
    ELSE LET to_currency == Head(rates)[1]
             rate == PyFloat(Head(rates)[2])
         IN  (IF rate = <<>> THEN <<>>
              ELSE <<[from_currency |-> base_currency,
                      to_currency |-> to_currency,
                      exchange_rate |-> rate[1],
                      effective_date |-> effective_date]>>)
             \o RateRows(Tail(rates), base_currency, effective_date)

EmptyObject == [base |-> <<>>, date |-> <<>>, rates |-> <<>>]

\* bool(x) of a JSON object and of a JSON string
Truthy(payload) == payload # EmptyObject

\* transform_json_to_csv_rows(raw_json_data, requested_date)
TransformJsonToCsvRows(raw_json_data, requested_date) ==
    IF /\ Truthy(raw_json_data)
       /\ raw_json_data.base # <<>>
       /\ raw_json_data.base[1] # ""
    THEN RateRows(IF raw_json_data.rates = <<>> THEN <<>> ELSE raw_json_data.rates[1],
                  raw_json_data.base[1], requested_date)
    ELSE <<>>

(***************************************************************************)
(* Inputs of the exchange-rate script.                                     *)
(***************************************************************************)
kMonday == <<"2", "0", "2", "3", "-", "0", "1", "-", "0", "2">>
kSaturdayPadded == <<" ", "2", "0", "2", "3", "-", "0", "1", "-", "0", "7", " ">>
kSaturday == <<"2", "0", "2", "3", "-", "0", "1", "-", "0", "7">>
kFriday == <<"2", "0", "2", "3", "-", "0", "1", "-", "0", "6">>
kSlashes == <<"2", "0", "2", "3", "/", "0", "1", "/", "0", "2">>
kBlank == <<" ", " ">>

DateKeys == {kMonday, kSaturdayPadded, kSlashes, kBlank}

\* SELECT DISTINCT: no date twice
DateLists ==
    {d \in UNION {[1..n -> DateKeys] : n \in 0..MaxDates} :
        \A a, b \in 1..Len(d) : a # b => d[a] # d[b]}

d091 == [m |-> 91, e |-> 2]
d15 == [m |-> 15, e |-> 1]

RateValues ==
    {[kind |-> "num", v |-> d091],
     [kind |-> "str", s |-> <<"0", ".", "9", "1">>],
     [kind |-> "str", s |-> <<" ", "1", ".", "5", "0", " ">>],
     [kind |-> "str", s |-> <<"b", "a", "d">>],
     [kind |-> "null"]}

Currencies == <<"EUR", "GBP", "JPY">>

\* the rates maps over the first n currencies
RateMaps ==
    UNION {{[k \in 1..n |-> <<Currencies[k], f[k]>>] : f \in [1..n -> RateValues]} :
              n \in 0..MaxRates}

\* objects without base, with an empty base, with base USD; the date echoed
\* by the API is the previous business day
Payloads ==
    {[base |-> b, date |-> <<kFriday>>, rates |-> r] :
        b \in {<<>>, <<"">>, <<"USD">>},
        r \in {<<>>} \cup {<<rm>> : rm \in RateMaps}}

\* the spec's example: USD, EUR "0.91", GBP "bad"
PayloadExample ==
    [base |-> <<"USD">>, date |-> <<kFriday>>,
     rates |-> << << <<"EUR", [kind |-> "str", s |-> <<"0", ".", "9", "1">>]>>,
                     <<"GBP", [kind |-> "str", s |-> <<"b", "a", "d">>]>> >> >>]

PayloadNoBase ==
    [base |-> <<>>, date |-> <<>>,
     rates |-> << << <<"EUR", [kind |-> "num", v |-> d091]>> >> >>]

\* what one request can end in during a run
HttpAnswers ==
    {[err |-> e, body |-> <<>>] :
         e \in {"ConnectionError", "HTTPError", "JSONDecodeError"}}
    \cup {[err |-> "", body |-> <<p>>] : p \in {PayloadExample, PayloadNoBase}}

(***************************************************************************)
(* exchangerates.py: __main__.                                             *)
(***************************************************************************)
InitRates(lists) ==
    /\ dates \in lists
    /\ failAt \in 0..(Len(dates) + 1)
    /\ next = 1
    /\ mpc = "submit"
    /\ futures = <<>>
    /\ dates_found = FALSE
    /\ header_written = FALSE
    /\ csv = <<>>
    /\ exit_code = 0 - 1
    /\ log = "none"
    /\ writing = {}

\* the exchange-rate script is not run
RatesIdle ==
    /\ dates = <<>> /\ failAt = 0 /\ next = 1 /\ mpc = "exit" /\ futures = <<>>
    /\ dates_found = FALSE /\ header_written = FALSE /\ csv = <<>>
    /\ exit_code = 0 - 1 /\ log = "none" /\ writing = {}

\* the catalogue script is not run
EtlIdle ==
    /\ file = <<>> /\ pc = "closed" /\ run = MaxRuns /\ i = 0
    /\ cur = EmptyDb /\ db = EmptyDb /\ autoinc = [t \in TableSet |-> 1]
    /\ okRows = {} /\ pending = {} /\ live = {} /\ last = NoRow /\ snap = EmptyDb

\* transform_json_to_csv_rows is not called on its own
XfIdle == xPayload = EmptyObject /\ xDate = <<>> /\ xRows = << <<>> >>

\* the final check without its elif branch
FinalStatusNoElif(found, written) ==
    IF ~found THEN [code |-> 1, log |-> "no_dates"]
    ELSE [code |-> 0, log |-> "all_written"]

\* the three sys.exit(1) / fall-through branches after the with blocks
FinalStatus(found, written) ==
    IF ~found THEN [code |-> 1, log |-> "no_dates"]
    ELSE IF ~written THEN [code |-> 1, log |-> "no_rows_written"]
    ELSE [code |-> 0, log |-> "all_written"]

\* the generator is asked for a date and raises pyodbc.Error
SourceRaises ==
    /\ mpc = "submit"
    /\ next = failAt
    /\ mpc' = "dbfail"
    /\ UNCHANGED <<dates, failAt, next, futures, dates_found, header_written,
                   csv, exit_code, log>>
    /\ UNCHANGED writing
    /\ UNCHANGED <<etlVars, xfVars, raceVars>>

\* if target_date_str.strip(): executor.submit(fetch..., target_date_str.strip())
SubmitDate ==
    /\ mpc = "submit"
    /\ next # failAt
    /\ next <= Len(dates)
    /\ Strip(dates[next]) # <<>>
    /\ futures' = Append(futures, [key |-> Strip(dates[next]), status |-> "queued",
                                   result |-> <<>>, drained |-> FALSE,
                                   src |-> next, http |-> [err |-> "none", body |-> <<>>]])
    /\ next' = next + 1
    /\ UNCHANGED <<dates, failAt, mpc, dates_found, header_written, csv, exit_code, log>>
    /\ UNCHANGED writing
    /\ UNCHANGED <<etlVars, xfVars, raceVars>>

\* a blank date is filtered out of the comprehension
SkipBlankDate ==
    /\ mpc = "submit"
    /\ next # failAt
    /\ next <= Len(dates)
    /\ Strip(dates[next]) = <<>>
    /\ next' = next + 1
    /\ UNCHANGED <<dates, failAt, mpc, futures, dates_found, header_written,
                   csv, exit_code, log>>
    /\ UNCHANGED writing
    /\ UNCHANGED <<etlVars, xfVars, raceVars>>

SourceExhausted == mpc = "submit" /\ next # failAt /\ next > Len(dates)

\* if not future_to_date: logger.critical(...); sys.exit(1)
NoDates ==
    /\ SourceExhausted
    /\ futures = <<>>
    /\ mpc' = "exit"
    /\ exit_code' = 1
    /\ log' = "no_dates"
    /\ UNCHANGED <<dates, failAt, next, futures, dates_found, header_written, csv>>
    /\ UNCHANGED writing
    /\ UNCHANGED <<etlVars, xfVars, raceVars>>

\* dates_found = True; for future in as_completed(future_to_date)
StartDrain ==
    /\ SourceExhausted
    /\ futures # <<>>
    /\ dates_found' = TRUE
    /\ mpc' = "drain"
    /\ UNCHANGED <<dates, failAt, next, futures, header_written, csv, exit_code, log>>
    /\ UNCHANGED writing
    /\ UNCHANGED <<etlVars, xfVars, raceVars>>

Running == {f \in 1..Len(futures) : futures[f].status = "running"}

\* a worker takes a queued task whose date does not parse: the function
\* returns (target_date_str, None) without a request
FetchBadDate(f) ==
    /\ mpc # "exit"
    /\ futures[f].status = "queued"
    /\ Cardinality(Running) < MAX_WORKERS
    /\ BadDate(futures[f].key)
    /\ futures' = [futures EXCEPT ![f].status = "done",
                       ![f].result = <<FetchExchangeRateForDate(futures[f].key,
                                                                futures[f].http)>>]
    /\ UNCHANGED <<dates, failAt, next, mpc, dates_found, header_written,
                   csv, exit_code, log>>
    /\ UNCHANGED writing
    /\ UNCHANGED <<etlVars, xfVars, raceVars>>

\* a worker takes a queued task and sends requests.get(url)
FetchRequest(f) ==
    /\ mpc # "exit"
    /\ futures[f].status = "queued"
    /\ Cardinality(Running) < MAX_WORKERS
    /\ ~BadDate(futures[f].key)
    /\ futures' = [futures EXCEPT ![f].status = "running"]
    /\ UNCHANGED <<dates, failAt, next, mpc, dates_found, header_written,
                   csv, exit_code, log>>
    /\ UNCHANGED writing
    /\ UNCHANGED <<etlVars, xfVars, raceVars>>

\* a fetch task that appends its own rows to the shared writer
FetchResponseWrites(f, http) ==
    /\ mpc # "exit"
    /\ futures[f].status = "running"
    /\ futures' = [futures EXCEPT ![f].status = "done", ![f].http = http,
                       ![f].result = <<FetchExchangeRateForDate(futures[f].key, http)>>]
    /\ writing' = writing \cup {[thread |-> f, future |-> f]}
    /\ UNCHANGED <<dates, failAt, next, mpc, dates_found, header_written,
                   csv, exit_code, log>>
    /\ UNCHANGED <<etlVars, xfVars, raceVars>>

\* the request ends and the function returns (or raises)
FetchResponse(f, http) ==
    /\ mpc # "exit"
    /\ futures[f].status = "running"
    /\ futures' = [futures EXCEPT ![f].status = "done", ![f].http = http,
                       ![f].result = <<FetchExchangeRateForDate(futures[f].key, http)>>]
    /\ UNCHANGED <<dates, failAt, next, mpc, dates_found, header_written,
                   csv, exit_code, log>>
    /\ UNCHANGED writing
    /\ UNCHANGED <<etlVars, xfVars, raceVars>>

\* as_completed hands over a finished future that was not handled yet
\* the main thread is not inside writer.writeheader() / writer.writerows()
MainIdle == \A w \in writing : w.thread # 0

\* as_completed hands the finished task f to the loop body
Completed(f) ==
    mpc = "drain" /\ futures[f].status = "done" /\ ~futures[f].drained

Result(f) == futures[f].result[1]

\* raw_json_response is usable: future.result() did not raise and the body
\* is not None (nor an empty object)
Usable(f) ==
    /\ ~Result(f).raised
    /\ Result(f).payload # <<>>
    /\ Truthy(Result(f).payload[1])

\* list(transformed_rows[0].keys()): the keys of a row in insertion order
FieldNames(row) ==
    <<"from_currency", "to_currency", "exchange_rate", "effective_date">>

\* writer.writeheader()
HeaderLine(row) == [header |-> TRUE, cells |-> FieldNames(row)]

\* writer.writerows: the values of one row in the order of the field names
RowLine(row) ==
    [header |-> FALSE,
     cells |-> <<row.from_currency, row.to_currency, row.exchange_rate,
                 row.effective_date>>]

\* a drain loop that gives the run up at the first failed fetch
DrainFailedAbort(f) ==
    /\ Completed(f)
    /\ MainIdle
    /\ ~Usable(f)
    /\ futures' = [g \in 1..Len(futures) |-> [futures[g] EXCEPT !.drained = TRUE]]
    /\ UNCHANGED <<dates, failAt, next, mpc, dates_found, header_written,
                   csv, exit_code, log>>
    /\ UNCHANGED writing
    /\ UNCHANGED <<etlVars, xfVars, raceVars>>

\* the else branch of `if raw_json_response`, or the except of future.result()
DrainFailed(f) ==
    /\ Completed(f)
    /\ MainIdle
    /\ ~Usable(f)
    /\ futures' = [futures EXCEPT ![f].drained = TRUE]
    /\ UNCHANGED <<dates, failAt, next, mpc, dates_found, header_written,
                   csv, exit_code, log>>
    /\ UNCHANGED writing
    /\ UNCHANGED <<etlVars, xfVars, raceVars>>

\* a drain loop that sets up the writer before looking at transformed_rows
DrainEmptyWritesHeader(f) ==
    /\ Completed(f)
    /\ MainIdle
    /\ Usable(f)
    /\ TransformJsonToCsvRows(Result(f).payload[1], Result(f).key) = <<>>
    /\ futures' = [futures EXCEPT ![f].drained = TRUE]
    /\ csv' = IF header_written THEN csv
              ELSE <<[header |-> TRUE,
                      cells |-> <<"from_currency", "to_currency",
                                  "exchange_rate", "effective_date">>]>>
    /\ header_written' = TRUE
    /\ UNCHANGED <<dates, failAt, next, mpc, dates_found, exit_code, log>>
    /\ UNCHANGED writing
    /\ UNCHANGED <<etlVars, xfVars, raceVars>>

\* the else branch of `if transformed_rows`
DrainEmpty(f) ==
    /\ Completed(f)
    /\ MainIdle
    /\ Usable(f)
    /\ TransformJsonToCsvRows(Result(f).payload[1], Result(f).key) = <<>>
    /\ futures' = [futures EXCEPT ![f].drained = TRUE]
    /\ UNCHANGED <<dates, failAt, next, mpc, dates_found, header_written,
                   csv, exit_code, log>>
    /\ UNCHANGED writing
    /\ UNCHANGED <<etlVars, xfVars, raceVars>>

\* writer.writeheader() once, then writer.writerows(transformed_rows)
DrainWriteBegin(f) ==
    /\ Completed(f)
    /\ MainIdle
    /\ Usable(f)
    /\ TransformJsonToCsvRows(Result(f).payload[1], Result(f).key) # <<>>
    /\ writing' = writing \cup {[thread |-> 0, future |-> f]}
    /\ UNCHANGED <<dates, failAt, next, mpc, futures, dates_found, header_written,
                   csv, exit_code, log>>
    /\ UNCHANGED <<etlVars, xfVars, raceVars>>

\* the writes reach the file and the loop body ends
DrainWrite(f) ==
    /\ Completed(f)
    /\ [thread |-> 0, future |-> f] \in writing
    /\ Usable(f)
    /\ LET rows == TransformJsonToCsvRows(Result(f).payload[1], Result(f).key)
       IN  /\ rows # <<>>
           /\ csv' = (IF header_written THEN csv ELSE <<HeaderLine(rows[1])>>)
                          \o [k \in 1..Len(rows) |-> RowLine(rows[k])]
    /\ header_written' = TRUE
    /\ futures' = [futures EXCEPT ![f].drained = TRUE]
    /\ UNCHANGED <<dates, failAt, next, mpc, dates_found, exit_code, log>>
    /\ writing' = writing \ {[thread |-> 0, future |-> f]}
    /\ UNCHANGED <<etlVars, xfVars, raceVars>>

AllDone == \A f \in 1..Len(futures) : futures[f].status = "done"

\* both with blocks are left, then the final if / elif / else
Finish ==
    /\ mpc = "drain"
    /\ MainIdle
    /\ \A f \in 1..Len(futures) : futures[f].drained
    /\ mpc' = "exit"
    /\ exit_code' = FinalStatus(dates_found, header_written).code
    /\ log' = FinalStatus(dates_found, header_written).log
    /\ UNCHANGED <<dates, failAt, next, futures, dates_found, header_written, csv>>
    /\ UNCHANGED writing
    /\ UNCHANGED <<etlVars, xfVars, raceVars>>

\* the pyodbc.Error leaves the comprehension: the executor's with block waits
\* for the submitted tasks, the file is closed, except pyodbc.Error: sys.exit(1)
ExitOnSourceError ==
    /\ mpc = "dbfail"
    /\ AllDone
    /\ mpc' = "exit"
    /\ exit_code' = 1
    /\ log' = "source_error"
    /\ UNCHANGED <<dates, failAt, next, futures, dates_found, header_written, csv>>
    /\ UNCHANGED writing
    /\ UNCHANGED <<etlVars, xfVars, raceVars>>

NextRates ==
    \/ SourceRaises
    \/ SubmitDate
    \/ SkipBlankDate
    \/ NoDates
    \/ StartDrain
    \/ \E f \in 1..Len(futures) : FetchBadDate(f)
    \/ \E f \in 1..Len(futures) : FetchRequest(f)
    \/ \E f \in 1..Len(futures) : \E http \in HttpAnswers : FetchResponse(f, http)
    \/ \E f \in 1..Len(futures) : DrainFailed(f)
    \/ \E f \in 1..Len(futures) : DrainEmpty(f)
    \/ \E f \in 1..Len(futures) : DrainWriteBegin(f)
    \/ \E f \in 1..Len(futures) : DrainWrite(f)
    \/ Finish
    \/ ExitOnSourceError

(***************************************************************************)
(* transform_json_to_csv_rows on its own, over every payload.              *)
(***************************************************************************)
InitXf ==
    /\ xPayload \in Payloads
    /\ xDate \in {kMonday, kSaturday}
    /\ xRows = <<>>

CallTransform ==
    /\ xRows = <<>>
    /\ xRows' = <<TransformJsonToCsvRows(xPayload, xDate)>>
    /\ UNCHANGED <<xPayload, xDate>>
    /\ UNCHANGED <<etlVars, ratesVars, raceVars>>

NextXf == CallTransform

(***************************************************************************)
(* Specifications.                                                         *)
(***************************************************************************)
(***************************************************************************)
(* get_or_create_id called on two connections for the same table and name. *)
(* The server is MySQL/InnoDB: autocommit is off, a plain SELECT is a       *)
(* consistent read (under REPEATABLE-READ of the snapshot taken by the      *)
(* transaction's first read, under READ-COMMITTED of the rows committed     *)
(* now), an INSERT checks the UNIQUE name against the rows committed now    *)
(* and waits behind another transaction's uncommitted row of that name.     *)
(***************************************************************************)
Callers == {1, 2}

Isolations == {"REPEATABLE-READ", "READ-COMMITTED"}

\* name_value of both calls
RaceName == sAnn

NoSession == [pc |-> "select", snapshot |-> <<>>, own |-> {}, ret |-> <<>>, dup |-> FALSE]

InitRace ==
    /\ isolation \in Isolations
    /\ \E other \in {{}, {[id |-> 1, name |-> sBob]}} :
           tbl = other /\ rai = Cardinality(other) + 1
    /\ sess = [c \in Callers |-> NoSession]

\* get_or_create_id is not called concurrently
RaceIdle ==
    /\ isolation = "REPEATABLE-READ" /\ tbl = {} /\ rai = 1
    /\ sess = [c \in Callers |-> [NoSession EXCEPT !.pc = "closed"]]

\* the rows a plain SELECT of connection c reads
ReadView(c) ==
    (IF isolation = "REPEATABLE-READ" /\ sess[c].snapshot # <<>>
     THEN sess[c].snapshot[1] ELSE tbl) \cup sess[c].own

\* the first read of a transaction fixes its snapshot
SnapshotAfterRead(c) ==
    IF sess[c].snapshot = <<>> THEN <<tbl>> ELSE sess[c].snapshot

\* another connection holds an uncommitted row of that name
LockedByOther(c, name) ==
    \E d \in Callers \ {c} : \E r \in sess[d].own : r.name = name

\* cursor.execute(select_sql); result = cursor.fetchone(); if result: return
RaceSelect(c) ==
    /\ sess[c].pc = "select"
    /\ LET found == SelectId(ReadView(c), RaceName)
       IN  sess' = [sess EXCEPT ![c].snapshot = SnapshotAfterRead(c),
                                ![c].ret = found,
                                ![c].pc = IF found # <<>> THEN "returned" ELSE "insert"]
    /\ UNCHANGED <<isolation, tbl, rai>>
    /\ UNCHANGED <<etlVars, ratesVars, xfVars>>

\* cursor.execute(insert_sql); return cursor.lastrowid, or errno 1062
RaceInsert(c) ==
    /\ sess[c].pc = "insert"
    /\ ~LockedByOther(c, RaceName)
    /\ LET ins == InsertLookup(tbl \cup sess[c].own, rai, RaceName)
       IN  /\ rai' = ins.autoinc
           /\ sess' = IF ins.errno = 0
                      THEN [sess EXCEPT ![c].own = ins.rows \ tbl,
                                        ![c].ret = <<ins.lastrowid>>,
                                        ![c].pc = "returned"]
                      ELSE [sess EXCEPT ![c].dup = TRUE, ![c].pc = "reselect"]
    /\ UNCHANGED <<isolation, tbl>>
    /\ UNCHANGED <<etlVars, ratesVars, xfVars>>

\* the INSERT waits behind the other transaction until the lock wait times
\* out (errno 1205): else: raise err
RaceInsertTimeout(c) ==
    /\ sess[c].pc = "insert"
    /\ LockedByOther(c, RaceName)
    /\ sess' = [sess EXCEPT ![c].pc = "raised"]
    /\ UNCHANGED <<isolation, tbl, rai>>
    /\ UNCHANGED <<etlVars, ratesVars, xfVars>>

\* errno 1062: cursor.execute(select_sql) again; return result[0] or raise err
RaceReselect(c) ==
    /\ sess[c].pc = "reselect"
    /\ LET found == SelectId(ReadView(c), RaceName)
       IN  sess' = [sess EXCEPT ![c].snapshot = SnapshotAfterRead(c),
                                ![c].ret = found,
                                ![c].pc = IF found # <<>> THEN "returned" ELSE "raised"]
    /\ UNCHANGED <<isolation, tbl, rai>>
    /\ UNCHANGED <<etlVars, ratesVars, xfVars>>

\* the caller's conn.commit()
RaceCommit(c) ==
    /\ sess[c].pc = "returned"
    /\ tbl' = tbl \cup sess[c].own
    /\ sess' = [sess EXCEPT ![c].own = {}, ![c].pc = "committed"]
    /\ UNCHANGED <<isolation, rai>>
    /\ UNCHANGED <<etlVars, ratesVars, xfVars>>

\* the caller's conn.rollback(): after the error of this call, or after a
\* later error of the same row
RaceRollback(c) ==
    /\ sess[c].pc \in {"returned", "raised"}
    /\ sess' = [sess EXCEPT ![c].own = {},
                            ![c].pc = IF sess[c].pc = "raised" THEN "failed"
                                      ELSE "rolledback"]
    /\ UNCHANGED <<isolation, tbl, rai>>
    /\ UNCHANGED <<etlVars, ratesVars, xfVars>>

NextRace ==
    \/ \E c \in Callers : RaceSelect(c)
    \/ \E c \in Callers : RaceInsert(c)
    \/ \E c \in Callers : RaceInsertTimeout(c)
    \/ \E c \in Callers : RaceReselect(c)
    \/ \E c \in Callers : RaceCommit(c)
    \/ \E c \in Callers : RaceRollback(c)

InitEtlShort == InitEtl(ShortFiles) /\ RatesIdle /\ XfIdle /\ RaceIdle

InitEtlLong == InitEtl(LongFiles) /\ RatesIdle /\ XfIdle /\ RaceIdle

InitRatesRun == InitRates(DateLists) /\ EtlIdle /\ XfIdle /\ RaceIdle

InitTransform == InitXf /\ EtlIdle /\ RatesIdle /\ RaceIdle

InitRaceRun == InitRace /\ EtlIdle /\ RatesIdle /\ XfIdle

\* etl_process on every file of at most MaxRows catalogue rows
SpecEtl == InitEtlShort /\ [][NextEtl]_vars

\* etl_process on the files that cross the commit boundary
SpecEtlLong == InitEtlLong /\ [][NextEtl]_vars

\* one run of exchangerates.py
SpecRates == InitRatesRun /\ [][NextRates]_vars

\* one call of transform_json_to_csv_rows
SpecTransform == InitTransform /\ [][NextXf]_vars

\* two concurrent calls of get_or_create_id for one name
SpecRace == InitRaceRun /\ [][NextRace]_vars

(***************************************************************************)
(* Properties of etl_process.                                              *)
(***************************************************************************)
ShowIdOf(row) == Strip(row[1])

\* the first twelve fields of row k (enumerate index) as the code reads them
FirstTwelve(k) == TransformRow(SubSeq(file[k + 1], 1, expected_cols))

\* row k is a data row that parses and fits its columns
DataRow(k) ==
    /\ Len(file[k + 1]) >= expected_cols
    /\ ~HeaderAt(k, file[k + 1])
    /\ ~FirstTwelve(k).err
    /\ ~UpsertShow(EmptyShows, FirstTwelve(k).shows_data).err

\* tables t holds, for show_id, one junction row per name of the list field
NamesLinked(tables, show_id, names) ==
    \A t \in TableSet : \A x \in 1..Len(names[t]) :
        \E r \in tables.lookup[t] :
            r.name = names[t][x] /\ <<show_id, r.id>> \in tables.junction[t]

\* the show row of row k and all its junction rows are in the tables
Written(tables, k) ==
    /\ FirstTwelve(k).shows_data.show_id \in DOMAIN tables.shows
    /\ NamesLinked(tables, FirstTwelve(k).shows_data.show_id, FirstTwelve(k).names)

\* C1 (as claimed): when a row is skipped the rollback discards only that
\* row's work, so at the end of the run every row that was processed
\* successfully is present in the shows table and the junction tables.
C1_EarlierRowsSurviveSkip ==
    pc = "closed" => \A k \in okRows : Written(db, k)

\* every line of the file is a valid data row
ValidFile == \A k \in 0..(Len(file) - 1) : file[k + 1] # <<>> /\ DataRow(k)

\* C2: for a file of valid rows, the second of two successive runs leaves
\* the shows table, the four lookup tables (name -> id) and the four junction
\* tables exactly as the first run left them.
C2_RerunIdempotent ==
    (pc = "closed" /\ run >= 2 /\ ValidFile) => db = snap

C2_Witness ==
    /\ pc = "closed" /\ run = 2 /\ ValidFile
    /\ Cardinality(DOMAIN db.shows) >= 2
    /\ db.lookup["directors"] # {} /\ db.junction["cast_members"] # {}
    /\ db = snap

\* the rows of tables.lookup[t] named n
Named(tables, t, n) == {r \in tables.lookup[t] : r.name = n}

InSeq(x, seq) == \E k \in 1..Len(seq) : seq[k] = x

\* rows k1 and k2 are different shows that both name n in list field t
ShareName(k1, k2, t, n) ==
    /\ FirstTwelve(k1).shows_data.show_id # FirstTwelve(k2).shows_data.show_id
    /\ InSeq(n, FirstTwelve(k1).names[t])
    /\ InSeq(n, FirstTwelve(k2).names[t])

AllNames == {sAnn, sBob, sUS, sDrama}

\* C3: no lookup table ever holds two rows with the same name, and when two
\* different shows of the file name the same director, cast member, country
\* or genre, at the end of the run the lookup table holds exactly one row
\* for the name and both shows' junction rows carry its id.
C3_OneRowPerName ==
    /\ \A t \in TableSet : \A r1, r2 \in cur.lookup[t] :
           r1.name = r2.name => r1.id = r2.id
    /\ \A t \in TableSet : \A r1, r2 \in db.lookup[t] :
           r1.name = r2.name => r1.id = r2.id
    /\ pc = "closed" =>
           \A k1, k2 \in live : \A t \in TableSet : \A n \in AllNames :
               ShareName(k1, k2, t, n) =>
                   /\ Cardinality(Named(db, t, n)) = 1
                   /\ \A r \in Named(db, t, n) :
                          /\ <<FirstTwelve(k1).shows_data.show_id, r.id>> \in db.junction[t]
                          /\ <<FirstTwelve(k2).shows_data.show_id, r.id>> \in db.junction[t]

C3_Witness ==
    /\ pc = "closed"
    /\ \E k1, k2 \in live :
           /\ ShareName(k1, k2, "directors", sAnn)
           /\ Cardinality(Named(db, "directors", sAnn)) = 1
           /\ \A r \in Named(db, "directors", sAnn) :
                  /\ <<FirstTwelve(k1).shows_data.show_id, r.id>> \in db.junction["directors"]
                  /\ <<FirstTwelve(k2).shows_data.show_id, r.id>> \in db.junction["directors"]

\* line k (1-based) has fewer than twelve columns and no line of twelve or
\* more columns carries its show_id
OnlyShort(k) ==
    /\ Len(file[k]) \in 1..(expected_cols - 1)
    /\ \A j \in 1..Len(file) :
           Len(file[j]) >= expected_cols => ShowIdOf(file[j]) # ShowIdOf(file[k])

NoTraceOf(tables, show_id) ==
    /\ show_id \notin DOMAIN tables.shows
    /\ \A t \in TableSet : \A p \in tables.junction[t] : p[1] # show_id

LastRow == file[last.i + 1]

\* C6: a row with fewer than 12 columns is skipped and never appears in the
\* shows table or a junction table; a row with more than 12 columns is
\* written exactly as its first 12 fields alone would be.
C6_ShortSkippedLongTruncated ==
    /\ \A k \in 1..Len(file) :
           OnlyShort(k) => NoTraceOf(cur, ShowIdOf(file[k])) /\ NoTraceOf(db, ShowIdOf(file[k]))
    /\ (last.outcome # "none" /\ Len(LastRow) \in 1..(expected_cols - 1)
            /\ ~HeaderAt(last.i, LastRow)) => last.outcome = "short"
    /\ (last.outcome # "none" /\ Len(LastRow) > expected_cols /\ DataRow(last.i)) =>
           /\ last.outcome = "ok"
           /\ cur.shows[FirstTwelve(last.i).shows_data.show_id] = FirstTwelve(last.i).shows_data
           /\ Written(cur, last.i)

C6_Witness ==
    /\ last.outcome = "ok"
    /\ Len(LastRow) > expected_cols
    /\ Written(cur, last.i)
    /\ \E k \in 1..last.i : OnlyShort(k)

\* the first integer token of the duration texts of the catalogue
FirstIntegerOf(text) ==
    CASE text = sDur114 -> <<114>>
      [] text = sDur2S -> <<2>>
      [] text = sDurMixed -> <<1>>
      [] text = sDurNone -> <<>>

LastShow == cur.shows[FirstTwelve(last.i).shows_data.show_id]

\* C8: for type 'Movie' the first integer token of the duration field is the
\* duration and seasons is null, for 'TV Show' it is seasons and duration is
\* null; every written show has at most one of the two; a row of unknown
\* type or without a digit is written with both null.
C8_DurationOrSeasons ==
    /\ \A sid \in DOMAIN cur.shows :
           cur.shows[sid].duration = <<>> \/ cur.shows[sid].seasons = <<>>
    /\ (last.outcome # "none" /\ LastRow # <<>> /\ DataRow(last.i)) =>
           LET kind == Strip(LastRow[2])
               n == FirstIntegerOf(Strip(LastRow[10]))
           IN  /\ last.outcome = "ok"
               /\ LastShow.duration = (IF kind = sMovie THEN n ELSE <<>>)
               /\ LastShow.seasons = (IF kind = sTVShow THEN n ELSE <<>>)

C8_Witness ==
    /\ last.outcome = "ok"
    /\ Strip(LastRow[2]) = sMovie
    /\ LastShow.duration = <<114>> /\ LastShow.seasons = <<>>
    /\ \E sid \in DOMAIN cur.shows :
           cur.shows[sid].seasons = <<2>> /\ cur.shows[sid].duration = <<>>

\* C9: a date_added in YYYY-MM-DD form gives the two-digit day and the
\* integer year; an empty or unparseable date_added gives null for both and
\* the show row and its junction rows are written all the same.
C9_DateDecomposition ==
    (last.outcome # "none" /\ LastRow # <<>> /\ DataRow(last.i)) =>
        LET full == Strip(LastRow[7])
        IN  /\ last.outcome = "ok"
            /\ Written(cur, last.i)
            /\ full = sDate1 =>
                   /\ LastShow.date_added_day = << <<"1", "4">> >>
                   /\ LastShow.date_added_year = <<2019>>
            /\ full \in {<<>>, sDateBad, sDateFeb30} =>
                   /\ LastShow.date_added_day = <<>>
                   /\ LastShow.date_added_year = <<>>
            /\ (LastShow.date_added_day = <<>>) <=> (LastShow.date_added_year = <<>>)
            /\ LastShow.date_added_day # <<>> => Len(LastShow.date_added_day[1]) = 2

C9_Witness ==
    /\ last.outcome = "ok"
    /\ Strip(LastRow[7]) = sDateBad
    /\ LastShow.date_added_day = <<>> /\ LastShow.date_added_year = <<>>
    /\ Written(cur, last.i)
    /\ \E sid \in DOMAIN cur.shows :
           /\ cur.shows[sid].date_added_day = << <<"1", "4">> >>
           /\ cur.shows[sid].date_added_year = <<2019>>

\* C10 (as claimed): a commit follows every 100th row, so the rows whose
\* work is not yet committed never number more than 100.
C10_AtMost100Uncommitted == Cardinality(pending) <= CommitEvery

(***************************************************************************)
(* Properties of exchangerates.py.                                         *)
(***************************************************************************)
\* data rows in the CSV file
RowsWritten == Cardinality({k \in 1..Len(csv) : ~csv[k].header})

SourceFails == failAt # 0

C5_FetchNeverRaises ==
    /\ mpc = "exit" => \A f \in 1..Len(futures) : futures[f].status = "done"
    /\ \A f \in 1..Len(futures) :
           /\ futures[f].key = Strip(dates[futures[f].src])
           /\ Len(futures[f].result) = (IF futures[f].status = "done" THEN 1 ELSE 0)
           /\ futures[f].status = "done" =>
                  /\ ~Result(f).raised
                  /\ Result(f).key = Strip(dates[futures[f].src])
                  /\ futures[f].key = kSlashes => Result(f).payload = <<>>
                  /\ futures[f].http.err \in HttpErrors => Result(f).payload = <<>>
                  /\ futures[f].http.err = "" =>
                         Result(f).payload = futures[f].http.body

C5_Witness ==
    \E f, g \in 1..Len(futures) :
        /\ futures[f].status = "done" /\ futures[g].status = "done"
        /\ futures[f].key = kSlashes /\ Result(f).payload = <<>>
        /\ futures[g].http.err = "JSONDecodeError"
        /\ Result(g).payload = <<>> /\ Result(g).key = kSaturday

\* the number each rate value of the inputs stands for, <<>> for none
RateOracle(value) ==
    CASE value = [kind |-> "num", v |-> d091] -> <<d091>>
      [] value = [kind |-> "str", s |-> <<"0", ".", "9", "1">>] -> <<d091>>
      [] value = [kind |-> "str", s |-> <<" ", "1", ".", "5", "0", " ">>] -> <<d15>>
      [] value = [kind |-> "str", s |-> <<"b", "a", "d">>] -> <<>>
      [] value = [kind |-> "null"] -> <<>>

Entries(payload) == IF payload.rates = <<>> THEN <<>> ELSE payload.rates[1]

Coercible(payload) ==
    {k \in 1..Len(Entries(payload)) : RateOracle(Entries(payload)[k][2]) # <<>>}

\* rows holds one row per coercible entry of payload, in document order,
\* each with the payload's base, the entry's currency and number, and date
OneRowPerEntry(rows, payload, date) ==
    /\ Len(rows) = Cardinality(Coercible(payload))
    /\ \A k \in Coercible(payload) :
           LET j == Cardinality({x \in Coercible(payload) : x <= k})
           IN  /\ rows[j].from_currency = payload.base[1]
               /\ rows[j].to_currency = Entries(payload)[k][1]
               /\ rows[j].exchange_rate = RateOracle(Entries(payload)[k][2])[1]
               /\ rows[j].effective_date = date

\* C7 (as claimed): the call returns exactly one row per entry of the rates
\* map whose value coerces to a number, with the payload's base, the entry's
\* currency, the coerced rate and the requested date; entries that fail
\* coercion are dropped without affecting the others.
C7_OneRowPerCoercibleEntry ==
    xRows # <<>> =>
        OneRowPerEntry(xRows[1], xPayload, xDate)

HasBase(payload) == payload.base # <<>> /\ payload.base[1] # ""

\* C7 (amended): that holds for a payload with a non-empty base; a payload
\* whose base is absent or empty yields no row at all.
C7_OneRowPerEntryGivenBase ==
    xRows # <<>> =>
        /\ HasBase(xPayload) => OneRowPerEntry(xRows[1], xPayload, xDate)
        /\ ~HasBase(xPayload) => xRows[1] = <<>>

C7_Witness ==
    /\ xPayload = PayloadExample
    /\ xDate = kMonday
    /\ xRows = << <<[from_currency |-> "USD", to_currency |-> "EUR",
                     exchange_rate |-> d091, effective_date |-> kMonday]>> >>

\* the data rows of the CSV file, as a set
DataRows == {csv[k].cells : k \in {j \in 1..Len(csv) : ~csv[j].header}}

\* the submitted keys whose fetch returned a payload
Fetched == {f \in 1..Len(futures) : futures[f].status = "done" /\ Result(f).payload # <<>>}

\* transform_json_to_csv_rows(payload, key) of a fetched key
RowsOfKey(f) == TransformJsonToCsvRows(Result(f).payload[1], futures[f].key)

\* the rows every fetched key stands for, as CSV cells
ExpectedRows ==
    UNION {{<<RowsOfKey(f)[k].from_currency, RowsOfKey(f)[k].to_currency,
              RowsOfKey(f)[k].exchange_rate, RowsOfKey(f)[k].effective_date>> :
                k \in 1..Len(RowsOfKey(f))} : f \in Fetched}

RECURSIVE RowCount(_)
RowCount(fs) ==
    IF fs = {} THEN 0
    ELSE LET f == CHOOSE g \in fs : TRUE
         IN  Len(RowsOfKey(f)) + RowCount(fs \ {f})

Headers == {k \in 1..Len(csv) : csv[k].header}

\* C12: at every moment of the run, a file with at least one data row has
\* exactly one header, on its first line, naming the fields of the rows in
\* their order, and its second line is a data row of a fetched key (the
\* result that caused the header); a file without data rows has no header,
\* so a result with zero transformed rows never writes one; header_written
\* says whether the header is there.
C12_HeaderOnceBeforeRows ==
    /\ RowsWritten > 0 =>
           /\ Headers = {1}
           /\ csv[1].cells = <<"from_currency", "to_currency",
                               "exchange_rate", "effective_date">>
           /\ ~csv[2].header /\ csv[2].cells \in ExpectedRows
    /\ RowsWritten = 0 => csv = <<>>
    /\ header_written <=> csv # <<>>

C12_Witness ==
    /\ mpc = "exit"
    /\ \E f, g \in 1..Len(futures) :
           /\ Usable(f) /\ RowsOfKey(f) = <<>> /\ futures[f].drained
           /\ Usable(g) /\ RowsOfKey(g) # <<>> /\ futures[g].drained
    /\ Headers = {1}
    /\ RowsWritten > 0

\* a step of a worker thread: fetch_exchange_rate_for_date starts, sends its
\* request or returns for some task
FetchStep ==
    /\ Len(futures') = Len(futures)
    /\ \E f \in 1..Len(futures) : futures'[f].status # futures[f].status

\* C13: in every interleaving of the fetch tasks and the drain loop, at most
\* one thread is inside a header or row write, and it is the main thread; no
\* step of a fetch task changes the file, header_written or who is writing.
C13_WritesMutuallyExclusive ==
    /\ [](Cardinality(writing) <= 1 /\ \A w \in writing : w.thread = 0)
    /\ [][FetchStep => UNCHANGED <<csv, header_written, writing>>]_vars

\* the main thread is inside a write while another task's fetch is running
C13_Witness ==
    \E f, g \in 1..Len(futures) :
        /\ writing = {[thread |-> 0, future |-> f]}
        /\ futures[g].status = "running"

(***************************************************************************)
(* Properties of concurrent get_or_create_id calls.                        *)
(***************************************************************************)
\* the rows of that name, committed or not
RaceRows == {r \in tbl \cup UNION {sess[c].own : c \in Callers} : r.name = RaceName}

\* C14: in every interleaving of two get_or_create_id calls for one table
\* and name, at most one row of that name is ever inserted, the table holds
\* exactly one once a caller has committed, a caller that caught errno 1062
\* gets an id from its second SELECT instead of failing, and two callers that
\* both returned and committed returned the same id.
C14_ConcurrentCreateOneId ==
    /\ Cardinality(RaceRows) <= 1
    /\ (\E c \in Callers : sess[c].pc = "committed") =>
           Cardinality({r \in tbl : r.name = RaceName}) = 1
    /\ \A c \in Callers : sess[c].dup => sess[c].pc \notin {"raised", "failed"}
    /\ \A c, d \in Callers :
           sess[c].pc = "committed" /\ sess[d].pc = "committed" =>
               sess[c].ret = sess[d].ret

====
